---- MODULE Spec2Model ----
(***************************************************************************)
(* Model of the NuttyB-Raptors lobby command generator:                    *)
(*   - the Lua template interpolation (parseReference, evaluateExpression, *)
(*     interpolateTemplate, processLuaReference),                          *)
(*   - the stored-configuration validation (validateStoredConfiguration),  *)
(*   - the lobby section builder (mapper, annotator, packer, sections).    *)
(*                                                                         *)
(* A JavaScript string is a sequence of one-character TLA+ strings.  The   *)
(* only multi-character elements are whole identifiers used as template    *)
(* names ("toString"), and texts the runtime produces whose characters are *)
(* not computed one by one: "Infinity", "NaN", the digits of an inexact    *)
(* double, the text of a built-in function.                                *)
(***************************************************************************)
EXTENDS Integers, Sequences, FiniteSets, TLC

VARIABLES
    pc,            \* the position of the running operation
    ref,           \* the reference token given to the parser / resolver
    luaFileMap,    \* the bundle: file path -> Lua source text
    template,      \* interpolateTemplate's template
    variables,     \* interpolateTemplate's variables
    expression,    \* evaluateExpression's argument
    interpolated,  \* interpolateTemplate's local of that name
    stored,        \* validateStoredConfiguration's argument
    gitShaEnv,     \* process.env.NEXT_PUBLIC_GIT_SHA
    defaults,      \* the DEFAULT_CONFIGURATION object
    build,         \* buildLobbySections' configuration and mapping
    result,        \* the value the operation returned
    warnings       \* the console.warn calls of the operation, in order

vars == <<pc, ref, luaFileMap, template, variables, expression, interpolated,
          stored, gitShaEnv, defaults, build, result, warnings>>

(***************************************************************************)
(* Bounds of the model.                                                    *)
(***************************************************************************)
MaxRefLen == 5
MaxVarsLen == 5
MaxExprLen == 5
MaxTemplateLen == 5

None == "none"

(***************************************************************************)
(* Strings.                                                                *)
(***************************************************************************)
StringsUpTo(alphabet, n) == UNION {[1..k -> alphabet] : k \in 0..n}

Digits == {"0", "1", "2", "3", "4", "5", "6", "7", "8", "9"}

\* ECMAScript WhiteSpace / LineTerminator characters used by the model
\* (\s of a RegExp, String.prototype.trim, parseFloat's leading skip).
WhiteSpace == {" ", "\t", "\n"}

\* The names every object literal inherits from Object.prototype.
ObjectPrototypeKeys ==
    {"constructor", "toString", "toLocaleString", "valueOf", "hasOwnProperty",
     "isPrototypeOf", "propertyIsEnumerable", "__proto__", "__defineGetter__",
     "__defineSetter__", "__lookupGetter__", "__lookupSetter__"}

\* \w of a RegExp: ASCII letters, digits and underscore (the letters the
\* model's alphabets use).  Whole identifiers kept as one element are word
\* elements too.
WordChars ==
    Digits \cup {"_", "A", "B", "X", "Y", "a", "b", "c", "p"} \cup ObjectPrototypeKeys

\* The JavaScript string a sequence of elements stands for.
RECURSIVE Flat(_)
Flat(s) == IF s = <<>> THEN "" ELSE Head(s) \o Flat(Tail(s))

Contains(s, c) == \E i \in 1..Len(s) : s[i] = c

ContainsAny(s, cs) == \E i \in 1..Len(s) : s[i] \in cs

\* String.prototype.indexOf for one character, 1-based; 0 when absent.
IndexOf(s, c) ==
    IF Contains(s, c) THEN CHOOSE i \in 1..Len(s) : s[i] = c /\ \A j \in 1..(i-1) : s[j] # c
    ELSE 0

RECURSIVE TrimStart(_)
TrimStart(s) ==
    IF s # <<>> /\ Head(s) \in WhiteSpace THEN TrimStart(Tail(s)) ELSE s

RECURSIVE TrimEnd(_)
TrimEnd(s) ==
    IF s # <<>> /\ s[Len(s)] \in WhiteSpace THEN TrimEnd(SubSeq(s, 1, Len(s) - 1)) ELSE s

\* String.prototype.trim
Trim(s) == TrimEnd(TrimStart(s))

\* String.prototype.split(sep) for a one-character separator: always at
\* least one part, every occurrence of sep separates.
RECURSIVE Split(_, _)
Split(s, sep) ==
    LET i == IndexOf(s, sep)
    IN IF i = 0 THEN <<s>>
       ELSE <<SubSeq(s, 1, i - 1)>> \o Split(SubSeq(s, i + 1, Len(s)), sep)

(***************************************************************************)
(* parseReference                                                          *)
(***************************************************************************)
Null == [isNull |-> TRUE]

\* ref.match(/^~([^{]+)(?:\{([^}]+)\})?$/): group 1 is the longest run of
\* non-"{" characters after the sigil (it cannot stop earlier, the next
\* thing must be "{" or the end); group 2, when present, is a non-empty run
\* of non-"}" characters enclosed by "{" and the final "}".
MatchReference(r) ==
    IF r = <<>> \/ Head(r) # "~" THEN [matched |-> FALSE]
    ELSE LET rest == Tail(r)
             i == IndexOf(rest, "{")
         IN IF i = 0
            THEN IF rest = <<>> THEN [matched |-> FALSE]
                 ELSE [matched |-> TRUE, g1 |-> rest, hasG2 |-> FALSE, g2 |-> <<>>]
            ELSE LET inner == SubSeq(rest, i + 1, Len(rest) - 1)
                 IN IF /\ i >= 2
                       /\ Len(rest) >= i + 2
                       /\ rest[Len(rest)] = "}"
                       /\ ~Contains(inner, "}")
                    THEN [matched |-> TRUE, g1 |-> SubSeq(rest, 1, i - 1),
                          hasG2 |-> TRUE, g2 |-> inner]
                    ELSE [matched |-> FALSE]

\* variables[key] = value on an object literal: an own property, except
\* that assigning a string to "__proto__" runs the inherited setter, which
\* ignores non-object values.
SetProp(obj, key, value) ==
    IF key = "__proto__" THEN obj
    ELSE [k \in (DOMAIN obj) \cup {key} |-> IF k = key THEN value ELSE obj[k]]

EmptyObject == [k \in {} |-> <<>>]

\* const [key, value] = pair.split('=').map((s) => s.trim())
PairKey(pair) == Trim(Split(pair, "=")[1])

PairHasValue(pair) == Len(Split(pair, "=")) >= 2

PairValue(pair) == Trim(Split(pair, "=")[2])

\* if (!key || value === undefined) { warn; continue }
PairSkipped(pair) == PairKey(pair) = <<>> \/ ~PairHasValue(pair)

\* The for-loop over the pairs: the variables recorded and the warnings.
RECURSIVE ParsePairs(_, _, _)
ParsePairs(pairs, obj, warns) ==
    IF pairs = <<>> THEN [variables |-> obj, warns |-> warns]
    ELSE LET pair == Head(pairs)
         IN IF PairSkipped(pair)
            THEN ParsePairs(Tail(pairs), obj, Append(warns, "invalid-pair"))
            ELSE ParsePairs(Tail(pairs),
                            SetProp(obj, Flat(PairKey(pair)), PairValue(pair)),
                            warns)

parseReference(r) ==
    IF r = <<>> \/ Head(r) # "~"
    THEN [ret |-> Null, warns |-> <<"missing-prefix">>]
    ELSE LET Reference(m, p) ==
                 [ret |-> [isNull |-> FALSE, filePath |-> m.g1,
                           variables |-> p.variables],
                  warns |-> p.warns]
             Matched(m) ==
                 IF ~m.matched
                 THEN [ret |-> Null, warns |-> <<"malformed">>]
                 ELSE IF m.hasG2
                 THEN Reference(m, ParsePairs(Split(m.g2, ","), EmptyObject, <<>>))
                 ELSE Reference(m, [variables |-> EmptyObject, warns |-> <<>>])
         IN Matched(MatchReference(r))

(***************************************************************************)
(* Specification of the reference parser: a token is drawn, then parsed.   *)
(***************************************************************************)
RefAlphabet == {"~", "p", "{", "}", "A", "="}

VarsAlphabet == {"A", "b", "=", ",", " "}

RefInputs ==
    StringsUpTo(RefAlphabet, MaxRefLen)
    \cup {<<"~", "p", "{">> \o v \o <<"}">> : v \in StringsUpTo(VarsAlphabet, MaxVarsLen)}

InitParse ==
    /\ pc = "start"
    /\ ref \in RefInputs
    /\ luaFileMap = None
    /\ template = None
    /\ variables = None
    /\ expression = None
    /\ interpolated = None
    /\ stored = None
    /\ gitShaEnv = None
    /\ defaults = None
    /\ build = None
    /\ result = None
    /\ warnings = <<>>

ParseReference ==
    /\ pc = "start"
    /\ pc' = "done"
    /\ result' = parseReference(ref).ret
    /\ warnings' = parseReference(ref).warns
    /\ UNCHANGED <<ref, luaFileMap, template, variables, expression,
                   interpolated, stored, gitShaEnv, defaults, build>>

NextParse == ParseReference

SpecParse == InitParse /\ [][NextParse]_vars

(***************************************************************************)
(* Numbers.  A JavaScript number computed by the evaluator is a sign and a *)
(* reduced fraction num/den (den > 0), or NaN; a zero keeps its sign.      *)
(***************************************************************************)
NaN == [nan |-> TRUE]

RECURSIVE Gcd(_, _)
Gcd(a, b) == IF b = 0 THEN a ELSE Gcd(b, a % b)

Number(neg, num, den) ==
    LET g == Gcd(num, den)
    IN [nan |-> FALSE, neg |-> neg, num |-> num \div g, den |-> den \div g]

DigitValue(c) == CHOOSE d \in 0..9 : <<"0", "1", "2", "3", "4", "5", "6", "7", "8", "9">>[d + 1] = c

DigitChar(d) == <<"0", "1", "2", "3", "4", "5", "6", "7", "8", "9">>[d + 1]

\* The longest run of decimal digits at the start of s.
RECURSIVE DigitRun(_)
DigitRun(s) ==
    IF s # <<>> /\ Head(s) \in Digits THEN <<Head(s)>> \o DigitRun(Tail(s)) ELSE <<>>

RECURSIVE DigitsValue(_)
DigitsValue(ds) ==
    IF ds = <<>> THEN 0
    ELSE 10 * DigitsValue(SubSeq(ds, 1, Len(ds) - 1)) + DigitValue(ds[Len(ds)])

RECURSIVE Pow(_, _)
Pow(b, n) == IF n = 0 THEN 1 ELSE b * Pow(b, n - 1)

\* Number.parseFloat: leading white space skipped, an optional sign, then
\* the longest prefix that is a decimal literal (digits, digits "." digits,
\* digits ".", "." digits); NaN when there is none.  The rest is ignored.
\* (An exponent or "Infinity" needs a letter, which the safety check of
\* evaluateExpression never lets through.)
parseFloat(s) ==
    LET Decimal(neg, int, frac) ==
            IF int = <<>> /\ frac = <<>> THEN NaN
            ELSE Number(neg, DigitsValue(int \o frac), Pow(10, Len(frac)))
        Fraction(afterInt) ==
            IF afterInt # <<>> /\ Head(afterInt) = "." THEN DigitRun(Tail(afterInt)) ELSE <<>>
        Unsigned(neg, u, int) ==
            Decimal(neg, int, Fraction(SubSeq(u, Len(int) + 1, Len(u))))
        Signed(neg, u) == Unsigned(neg, u, DigitRun(u))
        Trimmed(t) ==
            IF t # <<>> /\ Head(t) \in {"+", "-"}
            THEN Signed(Head(t) = "-", Tail(t))
            ELSE Signed(FALSE, t)
    IN Trimmed(TrimStart(s))

RECURSIVE IsPowerOfTwo(_)
IsPowerOfTwo(n) == n = 1 \/ (n % 2 = 0 /\ IsPowerOfTwo(n \div 2))

RECURSIVE OnlyTwosAndFives(_)
OnlyTwosAndFives(n) ==
    \/ n = 1
    \/ (n % 2 = 0 /\ OnlyTwosAndFives(n \div 2))
    \/ (n % 5 = 0 /\ OnlyTwosAndFives(n \div 5))

\* A parsed operand that an IEEE-754 double holds exactly.
ExactDouble(x) == IsPowerOfTwo(x.den)

RECURSIVE NatString(_)
NatString(n) ==
    IF n < 10 THEN <<DigitChar(n)>> ELSE NatString(n \div 10) \o <<DigitChar(n % 10)>>

RECURSIVE FractionDigits(_, _)
FractionDigits(rem, den) ==
    IF rem = 0 THEN <<>>
    ELSE <<DigitChar((rem * 10) \div den)>> \o FractionDigits((rem * 10) % den, den)

\* Number.prototype.toString of the double nearest to (+/-) num/den.  The
\* digits are computed when the operands are exact doubles and the value
\* has a finite decimal expansion (it is then printed exactly); otherwise
\* the text is one element naming the double, never equal to source text.
NumberToString(neg, num, den, exact) ==
    IF num = 0 THEN <<"0">>
    ELSE IF exact /\ OnlyTwosAndFives(den)
    THEN (IF neg THEN <<"-">> ELSE <<>>)
         \o NatString(num \div den)
         \o (IF num % den = 0 THEN <<>> ELSE <<".">> \o FractionDigits(num % den, den))
    ELSE <<"double:" \o (IF neg THEN "-" ELSE "") \o ToString(num) \o "/" \o ToString(den)>>

\* (parts[0] / parts[1]).toString()
Quotient(x, y) ==
    IF y.num = 0
    THEN IF x.num = 0 THEN <<"NaN">>
         ELSE IF x.neg # y.neg THEN <<"-", "Infinity">> ELSE <<"Infinity">>
    ELSE LET Reduced(num, den, g) ==
                 NumberToString(x.neg # y.neg, num \div g, den \div g,
                                ExactDouble(x) /\ ExactDouble(y))
         IN Reduced(x.num * y.den, x.den * y.num, Gcd(x.num * y.den, x.den * y.num))

\* (parts[0] * parts[1]).toString()
Product(x, y) ==
    LET Reduced(num, den, g) ==
            NumberToString(x.neg # y.neg, num \div g, den \div g,
                           ExactDouble(x) /\ ExactDouble(y))
    IN Reduced(x.num * y.num, x.den * y.den, Gcd(x.num * y.num, x.den * y.den))

(***************************************************************************)
(* evaluateExpression                                                      *)
(***************************************************************************)
ArithmeticOperators == {"+", "-", "*", "/"}

\* The characters of /^[\d\s+\-*/().]+$/
SafeChars == Digits \cup WhiteSpace \cup ArithmeticOperators \cup {"(", ")", "."}

IsSafeExpression(e) == e # <<>> /\ \A i \in 1..Len(e) : e[i] \in SafeChars

\* trimmed.split(op).map((p) => Number.parseFloat(p.trim()))
Operands(trimmed, op) ==
    LET parts == Split(trimmed, op)
    IN [i \in 1..Len(parts) |-> parseFloat(Trim(parts[i]))]

\* parts.length === 2 && parts.every((p) => !Number.isNaN(p))
TwoNumbers(parts) == Len(parts) = 2 /\ \A i \in 1..Len(parts) : ~parts[i].nan

\* evaluateExpression with the safety check dropped: the lenient parseFloat
\* then reads the operands of an expression holding other characters.
evaluateExpression_Unchecked(e) ==
    LET Multiplication(trimmed, parts) ==
            IF Contains(trimmed, "*") /\ TwoNumbers(parts)
            THEN [ret |-> Product(parts[1], parts[2]), warns |-> <<>>]
            ELSE [ret |-> e, warns |-> <<"unsupported">>]
        Division(trimmed, parts) ==
            IF Contains(trimmed, "/") /\ TwoNumbers(parts)
            THEN [ret |-> Quotient(parts[1], parts[2]), warns |-> <<>>]
            ELSE Multiplication(trimmed, Operands(trimmed, "*"))
        Evaluate(trimmed) == Division(trimmed, Operands(trimmed, "/"))
    IN Evaluate(Trim(e))

evaluateExpression(e) ==
    IF ~IsSafeExpression(e)
    THEN [ret |-> e, warns |-> <<"unsafe">>]
    ELSE LET Multiplication(trimmed, parts) ==
                 IF Contains(trimmed, "*") /\ TwoNumbers(parts)
                 THEN [ret |-> Product(parts[1], parts[2]), warns |-> <<>>]
                 ELSE [ret |-> e, warns |-> <<"unsupported">>]
             Division(trimmed, parts) ==
                 IF Contains(trimmed, "/") /\ TwoNumbers(parts)
                 THEN [ret |-> Quotient(parts[1], parts[2]), warns |-> <<>>]
                 ELSE Multiplication(trimmed, Operands(trimmed, "*"))
             Evaluate(trimmed) == Division(trimmed, Operands(trimmed, "/"))
         IN Evaluate(Trim(e))

(***************************************************************************)
(* interpolateTemplate                                                     *)
(***************************************************************************)
\* varName in variables: own properties and the inherited ones.
InObject(name, obj, inherited) == name \in DOMAIN obj \/ name \in inherited

\* String(variables[varName]), the text String.prototype.replaceAll splices
\* in: the own value, or the text of the inherited member.
PropertyText(name, obj) ==
    IF name \in DOMAIN obj THEN obj[name]
    ELSE IF name = "__proto__" THEN <<"[object Object]">>
    ELSE IF name = "constructor" THEN <<"function Object() { [native code] }">>
    ELSE <<"function " \o name \o "() { [native code] }">>

\* The end of the match of /\$(\w+)\$/ that starts at i, or 0.
PlaceholderEnd(s, i) ==
    IF s[i] # "$" THEN 0
    ELSE LET closing == {j \in (i + 2)..Len(s) :
                            /\ s[j] = "$"
                            /\ \A k \in (i + 1)..(j - 1) : s[k] \in WordChars}
         IN IF closing = {} THEN 0 ELSE CHOOSE j \in closing : TRUE

\* First pass, from position i on: one left-to-right scan, the replacement
\* text is not scanned again.  Returns the text, the names used, the warnings.
\* inherited: the names the in operator finds on the prototype chain.
RECURSIVE ReplacePlaceholders(_, _, _, _, _)
ReplacePlaceholders(s, i, obj, inherited, acc) ==
    IF i > Len(s) THEN acc
    ELSE LET Placeholder(j, name) ==
                 IF InObject(name, obj, inherited)
                 THEN ReplacePlaceholders(s, j + 1, obj, inherited,
                          [acc EXCEPT !.text = @ \o PropertyText(name, obj),
                                      !.used = @ \cup {name}])
                 ELSE ReplacePlaceholders(s, j + 1, obj, inherited,
                          [acc EXCEPT !.text = @ \o SubSeq(s, i, j),
                                      !.warns = Append(@, "undefined-variable")])
             Match(j) ==
                 IF j = 0
                 THEN ReplacePlaceholders(s, i + 1, obj, inherited,
                          [acc EXCEPT !.text = Append(@, s[i])])
                 ELSE Placeholder(j, Flat(SubSeq(s, i + 1, j - 1)))
         IN Match(PlaceholderEnd(s, i))

FirstPass(tpl, obj) ==
    ReplacePlaceholders(tpl, 1, obj, ObjectPrototypeKeys,
                        [text |-> <<>>, used |-> {}, warns |-> <<>>])

\* Elements whose text holds a parenthesis: the two characters, and the
\* text of an inherited function ("function f() { [native code] }", whose
\* own "()" is empty and so never a group).
HoldsParenthesis(c) ==
    c \in {"(", ")"} \cup {PropertyText(n, EmptyObject)[1] : n \in ObjectPrototypeKeys \ {"__proto__"}}

\* The end of the match of /\(([^()]+)\)/ that starts at i, or 0.
GroupEnd(s, i) ==
    IF s[i] # "(" THEN 0
    ELSE LET next == {j \in (i + 1)..Len(s) : HoldsParenthesis(s[j])}
         IN IF next = {} THEN 0
            ELSE LET j == CHOOSE j \in next : \A k \in next : j <= k
                 IN IF s[j] = ")" /\ j > i + 1 THEN j ELSE 0

\* Second pass, from position i on.
RECURSIVE EvaluateGroups(_, _, _)
EvaluateGroups(s, i, acc) ==
    IF i > Len(s) THEN acc
    ELSE LET Evaluated(j, ev) ==
                 EvaluateGroups(s, j + 1,
                     [acc EXCEPT !.text = @ \o <<"(">> \o ev.ret \o <<")">>,
                                 !.warns = @ \o ev.warns])
             Group(j, inner) ==
                 IF ContainsAny(inner, ArithmeticOperators)
                 THEN Evaluated(j, evaluateExpression(inner))
                 ELSE EvaluateGroups(s, j + 1, [acc EXCEPT !.text = @ \o SubSeq(s, i, j)])
             Match(j) ==
                 IF j = 0
                 THEN EvaluateGroups(s, i + 1, [acc EXCEPT !.text = Append(@, s[i])])
                 ELSE Group(j, SubSeq(s, i + 1, j - 1))
         IN Match(GroupEnd(s, i))

SecondPass(text) == EvaluateGroups(text, 1, [text |-> <<>>, warns |-> <<>>])

\* Object.keys(variables).filter((v) => !usedVariables.has(v))
UnusedVariables(obj, used) == (DOMAIN obj) \ used

UnusedWarning(obj, used) ==
    IF UnusedVariables(obj, used) # {} THEN <<"unused-variables">> ELSE <<>>

interpolateTemplate(tpl, obj) ==
    LET Interpolated(p1, p2) ==
            [ret |-> p2.text,
             warns |-> p1.warns \o p2.warns \o UnusedWarning(obj, p1.used)]
        Passes(p1) == Interpolated(p1, SecondPass(p1.text))
    IN Passes(FirstPass(tpl, obj))

(***************************************************************************)
(* Specification of the interpolator: either an expression is drawn and    *)
(* evaluated, or a template and a variable map are drawn and interpolated, *)
(* one pass per step.                                                      *)
(***************************************************************************)
ExprAlphabet == {"2", "+", "-", "*", "/", "a", " ", "."}

TemplateAlphabet == {"$", "X", "(", ")", "/", "2", "toString"}

\* Variable maps as parseReference records them (never empty when
\* processLuaReference interpolates).
VariableMaps ==
    {("X" :> <<"2">>), ("X" :> <<"2">>) @@ ("Y" :> <<"a">>),
     ("X" :> <<"$", "Y", "$">>) @@ ("Y" :> <<"2">>)}

InitInterp ==
    /\ \/ /\ pc = "expression"
          /\ expression \in StringsUpTo(ExprAlphabet, MaxExprLen)
          /\ template = None
          /\ variables = None
       \/ /\ pc = "template"
          /\ expression = None
          /\ template \in StringsUpTo(TemplateAlphabet, MaxTemplateLen)
          /\ variables \in VariableMaps
    /\ ref = None
    /\ luaFileMap = None
    /\ interpolated = None
    /\ stored = None
    /\ gitShaEnv = None
    /\ defaults = None
    /\ build = None
    /\ result = None
    /\ warnings = <<>>

EvaluateExpression ==
    /\ pc = "expression"
    /\ pc' = "evaluated"
    /\ result' = evaluateExpression(expression).ret
    /\ warnings' = evaluateExpression(expression).warns
    /\ UNCHANGED <<ref, luaFileMap, template, variables, expression,
                   interpolated, stored, gitShaEnv, defaults, build>>

\* interpolateTemplate up to the end of its first replaceAll.
SubstitutePlaceholders ==
    /\ pc = "template"
    /\ pc' = "substituted"
    /\ interpolated' = FirstPass(template, variables).text
    /\ warnings' = FirstPass(template, variables).warns
    /\ UNCHANGED <<ref, luaFileMap, template, variables, expression,
                   stored, gitShaEnv, defaults, build, result>>

\* The second replaceAll, the unused-variable report and the return.
EvaluateArithmetic ==
    /\ pc = "substituted"
    /\ pc' = "interpolated"
    /\ interpolated' = SecondPass(interpolated).text
    /\ result' = interpolateTemplate(template, variables).ret
    /\ warnings' = interpolateTemplate(template, variables).warns
    /\ UNCHANGED <<ref, luaFileMap, template, variables, expression,
                   stored, gitShaEnv, defaults, build>>

NextInterp == EvaluateExpression \/ SubstitutePlaceholders \/ EvaluateArithmetic

SpecInterp == InitInterp /\ [][NextInterp]_vars

(***************************************************************************)
(* Claims about the reference parser (under SpecParse).                    *)
(***************************************************************************)
\* The pair list as C8 describes it: each pair split on its first "=" only,
\* the value everything after it; pairs with an empty key or no "=" skipped;
\* the last occurrence of a key wins.
RECURSIVE PairsByFirstEquals(_, _)
PairsByFirstEquals(pairs, obj) ==
    IF pairs = <<>> THEN obj
    ELSE LET pair == Head(pairs)
             i == IndexOf(pair, "=")
             key == Trim(SubSeq(pair, 1, i - 1))
             value == Trim(SubSeq(pair, i + 1, Len(pair)))
         IN IF i = 0 \/ key = <<>>
            THEN PairsByFirstEquals(Tail(pairs), obj)
            ELSE PairsByFirstEquals(Tail(pairs),
                     [k \in (DOMAIN obj) \cup {Flat(key)} |->
                         IF k = Flat(key) THEN value ELSE obj[k]])

\* C8: the variables parseReference records for a token with a variable list
\* are those of splitting each comma-separated pair on its first "=" only
\* (value = everything after it, so "A=b=c" records A -> "b=c"), skipping
\* pairs with an empty key or no "=", the last occurrence of a key winning.
C8_ValueIsRestAfterFirstEquals ==
    (pc = "done" /\ ~result.isNull /\ MatchReference(ref).hasG2)
        => result.variables =
               PairsByFirstEquals(Split(MatchReference(ref).g2, ","), EmptyObject)

\* The tokens C9 calls well formed: the sigil, a non-empty path without
\* braces, optionally followed by one balanced {pairs} at the very end, the
\* pairs non-empty and without braces.
WellFormedReference(r) ==
    /\ r # <<>>
    /\ Head(r) = "~"
    /\ LET rest == Tail(r)
           i == IndexOf(rest, "{")
           path == IF i = 0 THEN rest ELSE SubSeq(rest, 1, i - 1)
           pairs == SubSeq(rest, i + 1, Len(rest) - 1)
       IN /\ path # <<>>
          /\ ~ContainsAny(path, {"{", "}"})
          /\ i # 0 => /\ rest[Len(rest)] = "}"
                      /\ Len(rest) >= i + 2
                      /\ ~ContainsAny(pairs, {"{", "}"})

\* C9: parseReference returns null, with a warning and nothing recorded, for
\* every token that is not the sigil, a path and optionally one balanced
\* {pairs} at the end; tokens with unbalanced braces are rejected.
C9_MalformedRejected ==
    (pc = "done" /\ ~WellFormedReference(ref)) => (result.isNull /\ warnings # <<>>)

(***************************************************************************)
(* Claims about the interpolator (under SpecInterp).                       *)
(***************************************************************************)
\* C5: after the first pass every placeholder whose name is a key of the
\* supplied variables is replaced by that key's value, and every other
\* placeholder is left as it was, with one warning each.
C5_UnsuppliedPlaceholderKept ==
    pc = "substituted" =>
        LET claimed == ReplacePlaceholders(template, 1, variables, {},
                           [text |-> <<>>, used |-> {}, warns |-> <<>>])
        IN interpolated = claimed.text /\ warnings = claimed.warns

\* A whole decimal numeral: optional sign, digits with an optional fraction,
\* and nothing else (surrounding white space apart).
IsNumeral(s) ==
    LET t == Trim(s)
        u == IF t # <<>> /\ Head(t) \in {"+", "-"} THEN Tail(t) ELSE t
        int == DigitRun(u)
        afterInt == SubSeq(u, Len(int) + 1, Len(u))
        frac == IF afterInt # <<>> /\ Head(afterInt) = "." THEN DigitRun(Tail(afterInt)) ELSE <<>>
    IN /\ int \o frac # <<>>
       /\ Len(u) = Len(int) + (IF afterInt # <<>> /\ Head(afterInt) = "." THEN 1 ELSE 0) + Len(frac)

\* Exactly two numeric operands joined by a single op.
TwoOperandShape(e, op) ==
    LET parts == Split(Trim(e), op)
    IN Len(parts) = 2 /\ IsNumeral(parts[1]) /\ IsNumeral(parts[2])

\* C6: evaluateExpression returns the quotient for "a / b", the product for
\* "a * b" (a, b numerals), and for every other shape the expression itself,
\* unchanged, with a warning.
C6_OnlyTwoOperandShapes ==
    pc = "evaluated" =>
        IF TwoOperandShape(expression, "/")
        THEN result = Quotient(parseFloat(Split(Trim(expression), "/")[1]),
                               parseFloat(Split(Trim(expression), "/")[2]))
        ELSE IF TwoOperandShape(expression, "*")
        THEN result = Product(parseFloat(Split(Trim(expression), "*")[1]),
                              parseFloat(Split(Trim(expression), "*")[2]))
        ELSE result = expression /\ warnings # <<>>

HasUnsafeChar(e) == \E i \in 1..Len(e) : e[i] \notin SafeChars

\* A group of the second pass starting at i whose inner text has an
\* arithmetic operator and a character outside the safe set.
UnsafeGroupAt(s, i) ==
    /\ GroupEnd(s, i) # 0
    /\ ContainsAny(SubSeq(s, i + 1, GroupEnd(s, i) - 1), ArithmeticOperators)
    /\ HasUnsafeChar(SubSeq(s, i + 1, GroupEnd(s, i) - 1))

\* C7: an expression with a character outside digits, white space,
\* + - * / ( ) . is returned unchanged with the unsafe warning; and the
\* second pass leaves every group whose inner text has an operator and such
\* a character exactly as the first pass left it (at its place after the
\* rewritten text before it).
C7_UnsafeRejected ==
    [][ /\ (pc = "expression" /\ HasUnsafeChar(expression))
            => (result' = expression /\ warnings' = <<"unsafe">>)
        /\ pc = "substituted" =>
            \A i \in 1..Len(interpolated) :
                UnsafeGroupAt(interpolated, i) =>
                    LET j == GroupEnd(interpolated, i)
                        before == Len(SecondPass(SubSeq(interpolated, 1, i - 1)).text)
                    IN /\ Len(interpolated') >= before + (j - i + 1)
                       /\ SubSeq(interpolated', before + 1, before + (j - i + 1))
                              = SubSeq(interpolated, i, j)
      ]_vars

\* The second pass has run over a text with an unsafe operator group, which
\* is still there.
C7_Witness ==
    /\ pc = "interpolated"
    /\ \E i \in 1..Len(interpolated) : UnsafeGroupAt(interpolated, i)
    /\ "unsafe" \in {warnings[k] : k \in 1..Len(warnings)}

\* s holds, from i to j, a placeholder $NAME$ whose NAME is a key of obj.
SuppliedPlaceholder(s, i, j, obj) ==
    /\ i + 1 < j
    /\ s[i] = "$"
    /\ s[j] = "$"
    /\ \A k \in (i + 1)..(j - 1) : s[k] \in WordChars
    /\ Flat(SubSeq(s, i + 1, j - 1)) \in DOMAIN obj

\* s holds, from i to j, an innermost parenthesised group whose inner text
\* has one of + - * /.
OperatorGroup(s, i, j) ==
    /\ i + 1 < j
    /\ s[i] = "("
    /\ s[j] = ")"
    /\ \A k \in (i + 1)..(j - 1) : ~HoldsParenthesis(s[k])
    /\ \E k \in (i + 1)..(j - 1) : s[k] \in ArithmeticOperators

\* The template holds neither a supplied placeholder nor an operator group.
NothingToInterpolate(s, obj) ==
    \A i \in 1..Len(s) : \A j \in 1..Len(s) :
        ~SuppliedPlaceholder(s, i, j, obj) /\ ~OperatorGroup(s, i, j)

\* C11: interpolateTemplate changes only the placeholders whose name is
\* supplied and the innermost groups that hold an operator: a template with
\* neither is returned character for character, whatever the variable map;
\* and the replaced text is not scanned again: a template that is one
\* supplied placeholder returns the supplied value as it is, a "$NAME$" in
\* it included, when the value holds no operator group.
C11_OnlyPlaceholdersAndGroupsChange ==
    pc = "interpolated" =>
        /\ NothingToInterpolate(template, variables) => result = template
        /\ \A n \in DOMAIN variables :
              (/\ template = <<"$", n, "$">>
               /\ NothingToInterpolate(variables[n], [k \in {} |-> <<>>]))
                  => result = variables[n]

(***************************************************************************)
(* processLuaReference                                                     *)
(***************************************************************************)
\* luaFileMap.get(filePath): the text, or undefined.
MapHas(map, path) == Flat(path) \in DOMAIN map

\* if (!template): undefined and the empty string are both falsy.
TemplateMissing(map, path) == ~MapHas(map, path) \/ map[Flat(path)] = <<>>

processLuaReference(r, map) ==
    LET Interpolated(parsed, i) ==
            [ret |-> [isNull |-> FALSE, text |-> i.ret],
             warns |-> parsed.warns \o i.warns]
        Parsed(parsed) ==
            IF parsed.ret.isNull
            THEN [ret |-> Null, warns |-> parsed.warns]
            ELSE IF TemplateMissing(map, parsed.ret.filePath)
            THEN [ret |-> Null, warns |-> Append(parsed.warns, "not-found")]
            ELSE IF DOMAIN parsed.ret.variables = {}
            THEN [ret |-> [isNull |-> FALSE, text |-> map[Flat(parsed.ret.filePath)]],
                  warns |-> parsed.warns]
            ELSE Interpolated(parsed,
                              interpolateTemplate(map[Flat(parsed.ret.filePath)],
                                                  parsed.ret.variables))
    IN Parsed(parseReference(r))

(***************************************************************************)
(* Specification of the resolver: a token and a bundle are drawn, then the *)
(* token is resolved against the bundle.                                   *)
(***************************************************************************)
ResolveRefs ==
    {prefix \o path \o suffix :
        prefix \in {<<>>, <<"~">>},
        path \in {<<>>, <<"p">>, <<"q">>},
        suffix \in {<<>>, <<"}">>, <<"{", "}">>, <<"{", "=", "}">>,
                    <<"{", "X", "=", "2">>, <<"{", "X", "=", "2", "}">>}}

BundleTexts ==
    {<<>>, <<"a">>, <<"$", "X", "$">>, <<"(", "4", "/", "$", "X", "$", ")">>}

\* Maps from some of the paths to a text.
Bundles(paths, texts) == UNION {[ps -> texts] : ps \in SUBSET paths}

InitResolve ==
    /\ pc = "start"
    /\ ref \in ResolveRefs
    /\ luaFileMap \in Bundles({"p", "q"}, BundleTexts)
    /\ template = None
    /\ variables = None
    /\ expression = None
    /\ interpolated = None
    /\ stored = None
    /\ gitShaEnv = None
    /\ defaults = None
    /\ build = None
    /\ result = None
    /\ warnings = <<>>

ProcessLuaReference ==
    /\ pc = "start"
    /\ pc' = "resolved"
    /\ result' = processLuaReference(ref, luaFileMap).ret
    /\ warnings' = processLuaReference(ref, luaFileMap).warns
    /\ UNCHANGED <<ref, luaFileMap, template, variables, expression,
                   interpolated, stored, gitShaEnv, defaults, build>>

NextResolve == ProcessLuaReference

SpecResolve == InitResolve /\ [][NextResolve]_vars

\* C4: processLuaReference returns null only when the token fails to parse
\* or its path is no key of the bundle; a token that parses with no
\* variables and whose path is a key of the bundle yields exactly the text
\* stored under it, the empty text included.
C4_NullOnlyWhenAbsent ==
    pc = "resolved" =>
        LET parsed == parseReference(ref).ret
        IN /\ result.isNull => (parsed.isNull \/ ~MapHas(luaFileMap, parsed.filePath))
           /\ (/\ ~parsed.isNull
               /\ DOMAIN parsed.variables = {}
               /\ MapHas(luaFileMap, parsed.filePath))
                  => (~result.isNull /\ result.text = luaFileMap[Flat(parsed.filePath)])

(***************************************************************************)
(* validateStoredConfiguration                                             *)
(*                                                                         *)
(* A JavaScript value read back from localStorage (JSON): undefined for a  *)
(* missing property, null, a string, a number, a boolean, or an object     *)
(* with its own properties.                                                *)
(***************************************************************************)
Undefined == [type |-> "undefined"]

JsNull == [type |-> "null"]

JsString(s) == [type |-> "string", v |-> s]

JsNumber(n) == [type |-> "number", v |-> n]

JsBoolean(b) == [type |-> "boolean", v |-> b]

JsObject(props) == [type |-> "object", props |-> props]

\* obj.key: the own property, or undefined.
Get(props, key) == IF key \in DOMAIN props THEN props[key] ELSE Undefined

\* !value
Falsy(value) ==
    \/ value.type \in {"undefined", "null"}
    \/ value.type = "string" /\ value.v = ""
    \/ value.type = "number" /\ value.v = "0"
    \/ value.type = "boolean" /\ value.v = "false"

\* typeof value
TypeOf(value) == IF value.type = "null" THEN "object" ELSE value.type

\* { ...a, ...b }: a fresh object, the own properties of a, then those of b.
Spread(a, b) ==
    [k \in (DOMAIN a) \cup (DOMAIN b) |-> IF k \in DOMAIN b THEN b[k] ELSE a[k]]

\* process.env.NEXT_PUBLIC_GIT_SHA ?? 'development'
getCurrentGitSha(envSha) == IF envSha = Undefined THEN JsString("development") ELSE envSha

\* validateStoredConfiguration with the spread written the other way round:
\* the defaults overwrite what was stored.
validateStoredConfiguration_DefaultsLast(st, dflt, envSha) ==
    IF Falsy(Get(st, "configuration")) \/ TypeOf(Get(st, "configuration")) # "object"
    THEN Null
    ELSE [isNull |-> FALSE,
          value |-> [configuration |-> JsObject(Spread(Get(st, "configuration").props, dflt)),
                     gitSha |-> getCurrentGitSha(envSha)]]

validateStoredConfiguration(st, dflt, envSha) ==
    IF Falsy(Get(st, "configuration")) \/ TypeOf(Get(st, "configuration")) # "object"
    THEN Null
    ELSE [isNull |-> FALSE,
          value |-> [configuration |-> JsObject(Spread(dflt, Get(st, "configuration").props)),
                     gitSha |-> getCurrentGitSha(envSha)]]

(***************************************************************************)
(* Specification of the stored-configuration validation: a stored record   *)
(* is drawn and validated, then the result is validated again.             *)
(***************************************************************************)
\* Some keys of the Configuration schema (the form fields of the General
\* section) with a default each.
DEFAULT_CONFIGURATION ==
    [lobbyName |-> JsString(""), start |-> JsString("default"), queenCount |-> JsNumber("8")]

\* Property values a stored configuration may hold.
StoredValues == {JsNull, JsString("x"), JsNumber("2")}

\* Stored configurations: objects over the schema keys and a key of an older
\* version, each present or not; and the things that are no object.
StoredObjects ==
    {JsObject(props) : props \in Bundles((DOMAIN DEFAULT_CONFIGURATION) \cup {"legacy"}, StoredValues)}

StoredNonObjects ==
    {JsNull, JsString(""), JsString("x"), JsNumber("0"), JsNumber("2"), JsBoolean("false"),
     JsBoolean("true")}

StoredRecords ==
    {[gitSha |-> JsString("abc")]}
    \cup {[configuration |-> c, gitSha |-> JsString("abc")] : c \in StoredObjects \cup StoredNonObjects}

InitStore ==
    /\ pc = "start"
    /\ stored \in StoredRecords
    /\ gitShaEnv \in {Undefined, JsString("abc"), JsString("def")}
    /\ defaults = DEFAULT_CONFIGURATION
    /\ ref = None
    /\ luaFileMap = None
    /\ template = None
    /\ variables = None
    /\ expression = None
    /\ interpolated = None
    /\ build = None
    /\ result = None
    /\ warnings = <<>>

ValidateStoredConfiguration ==
    /\ pc = "start"
    /\ pc' = "validated"
    /\ result' = validateStoredConfiguration(stored, defaults, gitShaEnv)
    /\ UNCHANGED <<ref, luaFileMap, template, variables, expression, interpolated,
                   stored, gitShaEnv, defaults, build, warnings>>

\* The function applied to its own result.
ValidateAgain ==
    /\ pc = "validated"
    /\ ~result.isNull
    /\ pc' = "revalidated"
    /\ result' = validateStoredConfiguration(result.value, defaults, gitShaEnv)
    /\ UNCHANGED <<ref, luaFileMap, template, variables, expression, interpolated,
                   stored, gitShaEnv, defaults, build, warnings>>

NextStore == ValidateStoredConfiguration \/ ValidateAgain

SpecStore == InitStore /\ [][NextStore]_vars

\* stored.configuration is there and is an object.
HasConfigurationObject(st) ==
    "configuration" \in DOMAIN st /\ st.configuration.type = "object"

\* C10: validateStoredConfiguration returns null exactly when
\* stored.configuration is missing or not an object; otherwise every key of
\* DEFAULT_CONFIGURATION is in the returned configuration with a defined
\* value, the stored one where the stored configuration has the key and the
\* default where it has not, with the current Git SHA; applying it to its
\* result returns an equal result; the argument and DEFAULT_CONFIGURATION
\* are left as they were.
C10_MergedWithDefaults ==
    [][ /\ pc = "start" =>
            /\ result'.isNull <=> ~HasConfigurationObject(stored)
            /\ ~result'.isNull =>
                /\ \A k \in DOMAIN DEFAULT_CONFIGURATION :
                    /\ k \in DOMAIN result'.value.configuration.props
                    /\ result'.value.configuration.props[k] # Undefined
                    /\ result'.value.configuration.props[k] =
                           IF k \in DOMAIN stored.configuration.props
                           THEN stored.configuration.props[k]
                           ELSE DEFAULT_CONFIGURATION[k]
                /\ result'.value.gitSha =
                       (IF gitShaEnv = Undefined THEN JsString("development") ELSE gitShaEnv)
        /\ pc = "validated" => result' = result
        /\ stored' = stored
        /\ defaults' = defaults /\ defaults = DEFAULT_CONFIGURATION
      ]_vars

\* A stored configuration that lacks a schema key, holds another and was
\* saved under another Git SHA has been validated twice.
C10_Witness ==
    /\ pc = "revalidated"
    /\ \E k \in DOMAIN DEFAULT_CONFIGURATION : k \notin DOMAIN stored.configuration.props
    /\ \E k \in DOMAIN DEFAULT_CONFIGURATION :
        /\ k \in DOMAIN stored.configuration.props
        /\ stored.configuration.props[k] # DEFAULT_CONFIGURATION[k]
    /\ stored.gitSha # result.value.gitSha

(***************************************************************************)
(* Base64 (the payload encoding) over the UTF-8 bytes of ASCII text.       *)
(***************************************************************************)
\* The printable ASCII characters, from code 32 on (code 96, the grave
\* accent, is named: no text of the model holds it).
Ascii ==
    <<
      " ", "!", "\"", "#", "$", "%", "&", "'", "(", ")", "*", "+", ",", "-", ".", "/",
      "0", "1", "2", "3", "4", "5", "6", "7", "8", "9", ":", ";", "<", "=", ">", "?",
      "@", "A", "B", "C", "D", "E", "F", "G", "H", "I", "J", "K", "L", "M", "N", "O",
      "P", "Q", "R", "S", "T", "U", "V", "W", "X", "Y", "Z", "[", "\\", "]", "^", "_",
      "grave", "a", "b", "c", "d", "e", "f", "g", "h", "i", "j", "k", "l", "m", "n", "o",
      "p", "q", "r", "s", "t", "u", "v", "w", "x", "y", "z", "{", "|", "}", "~"
    >>

\* The UTF-8 byte of a character.
CharCode(c) == IF c = "\n" THEN 10 ELSE 31 + CHOOSE i \in 1..Len(Ascii) : Ascii[i] = c

CharOfCode(n) == IF n = 10 THEN "\n" ELSE Ascii[n - 31]

Base64Alphabet ==
    <<
      "A", "B", "C", "D", "E", "F", "G", "H", "I", "J", "K", "L", "M", "N", "O", "P",
      "Q", "R", "S", "T", "U", "V", "W", "X", "Y", "Z", "a", "b", "c", "d", "e", "f",
      "g", "h", "i", "j", "k", "l", "m", "n", "o", "p", "q", "r", "s", "t", "u", "v",
      "w", "x", "y", "z", "0", "1", "2", "3", "4", "5", "6", "7", "8", "9", "+", "/"
    >>

Base64Index(c) == (CHOOSE i \in 1..Len(Base64Alphabet) : Base64Alphabet[i] = c) - 1

\* encode: three bytes to four characters, "=" padding at the end.
RECURSIVE encode(_)
encode(text) ==
    IF text = <<>> THEN <<>>
    ELSE LET k == IF Len(text) >= 3 THEN 3 ELSE Len(text)
             b1 == CharCode(text[1])
             b2 == IF k >= 2 THEN CharCode(text[2]) ELSE 0
             b3 == IF k >= 3 THEN CharCode(text[3]) ELSE 0
             n == b1 * 65536 + b2 * 256 + b3
         IN << Base64Alphabet[(n \div 262144) + 1],
               Base64Alphabet[((n \div 4096) % 64) + 1],
               IF k >= 2 THEN Base64Alphabet[((n \div 64) % 64) + 1] ELSE "=",
               IF k >= 3 THEN Base64Alphabet[(n % 64) + 1] ELSE "=" >>
            \o encode(SubSeq(text, k + 1, Len(text)))

\* decode: four characters to up to three bytes.
RECURSIVE decode(_)
decode(b64) ==
    IF Len(b64) < 4 THEN <<>>
    ELSE LET c3 == b64[3]
             c4 == b64[4]
             n == Base64Index(b64[1]) * 262144 + Base64Index(b64[2]) * 4096
                  + (IF c3 = "=" THEN 0 ELSE Base64Index(c3) * 64)
                  + (IF c4 = "=" THEN 0 ELSE Base64Index(c4))
         IN <<CharOfCode(n \div 65536)>>
            \o (IF c3 = "=" THEN <<>> ELSE <<CharOfCode((n \div 256) % 256)>>)
            \o (IF c4 = "=" THEN <<>> ELSE <<CharOfCode(n % 256)>>)
            \o decode(SubSeq(b64, 5, Len(b64)))

(***************************************************************************)
(* The lobby section builder: mapper, resolver, annotator, packer,         *)
(* sections.                                                               *)
(***************************************************************************)
\* The protocol limits, scaled down.
MAX_COMMAND_LENGTH == 64

MAX_SLOTS_PER_TYPE == 2

Tweakdefs == <<"t", "w", "e", "a", "k", "d", "e", "f", "s">>

Tweakunits == <<"t", "w", "e", "a", "k", "u", "n", "i", "t", "s">>

\* "-- Source: ", the Lua single-line comment that records the reference.
SourceMarker == <<"-", "-", " ", "S", "o", "u", "r", "c", "e", ":", " ">>

\* array.join(sep)
RECURSIVE Join(_, _)
Join(parts, sep) ==
    IF parts = <<>> THEN <<>>
    ELSE IF Len(parts) = 1 THEN parts[1]
    ELSE parts[1] \o sep \o Join(Tail(parts), sep)

RECURSIVE Flatten(_)
Flatten(seqs) == IF seqs = <<>> THEN <<>> ELSE Head(seqs) \o Flatten(Tail(seqs))

\* 4.4 Configuration Mapper: the base commands and references first, then,
\* key by key in schema order, the entry of the key's current value, if any.
RECURSIVE SelectedEntries(_, _, _)
SelectedEntries(keys, configuration, mapping) ==
    IF keys = <<>> THEN <<>>
    ELSE LET key == Head(keys)
             values == mapping.values[key]
         IN (IF configuration[key] \in DOMAIN values
             THEN <<values[configuration[key]]>> ELSE <<>>)
            \o SelectedEntries(Tail(keys), configuration, mapping)

mapToTweaks(configuration, mapping) ==
    LET entries == SelectedEntries(mapping.keys, configuration, mapping)
    IN [commands |-> mapping.baseCommands
                     \o Flatten([i \in 1..Len(entries) |-> entries[i].command]),
        tweakdefs |-> mapping.baseTweaks.tweakdefs
                      \o Flatten([i \in 1..Len(entries) |-> entries[i].tweakdefs]),
        tweakunits |-> mapping.baseTweaks.tweakunits
                       \o Flatten([i \in 1..Len(entries) |-> entries[i].tweakunits])]

\* 4.5 Source Annotator that records the file path instead of the token.
annotate_PathOnly(sourceText, reference) ==
    SourceMarker \o <<"~">> \o parseReference(reference).ret.filePath \o <<"\n">> \o sourceText

\* 4.5 Source Annotator: the comment line with the token, then the text.
annotate(sourceText, reference) ==
    SourceMarker \o reference \o <<"\n">> \o sourceText

\* 4.3 over each reference: the annotated fragments of the references that
\* resolve; a null is skipped.
RECURSIVE ResolveAll(_, _)
ResolveAll(refs, bundle) ==
    IF refs = <<>> THEN <<>>
    ELSE LET Fragment(r) == IF r.isNull THEN <<>> ELSE <<annotate(r.text, Head(refs))>>
         IN Fragment(processLuaReference(Head(refs), bundle).ret)
            \o ResolveAll(Tail(refs), bundle)

\* !bset <category><slot-index> <encoded-payload>; index is the digits, or
\* empty for a single-slot category.
SlotCommand(category, index, fragments) ==
    <<"!", "b", "s", "e", "t", " ">> \o category \o index \o <<" ">>
    \o encode(Join(fragments, <<"\n">>))

Fits(category, index, fragments) ==
    Len(SlotCommand(category, index, fragments)) <= MAX_COMMAND_LENGTH

\* First fit by arrival: a fragment joins the open group while the group's
\* command still fits, else it opens the next group.
RECURSIVE FirstFit(_, _, _, _)
FirstFit(category, fragments, closed, open) ==
    IF fragments = <<>> THEN (IF open = <<>> THEN closed ELSE Append(closed, open))
    ELSE IF open = <<>> \/ Fits(category, NatString(Len(closed)), Append(open, Head(fragments)))
    THEN FirstFit(category, Tail(fragments), closed, Append(open, Head(fragments)))
    ELSE FirstFit(category, Tail(fragments), Append(closed, open), <<Head(fragments)>>)

\* 4.6 Packing Engine without the slot-count check.
pack_Unlimited(category, fragments) ==
    IF Fits(category, <<>>, fragments)
    THEN [ok |-> TRUE, error |-> None, commands |-> <<SlotCommand(category, <<>>, fragments)>>]
    ELSE LET groups == FirstFit(category, fragments, <<>>, <<>>)
         IN [ok |-> TRUE, error |-> None,
             commands |-> [i \in 1..Len(groups) |->
                              SlotCommand(category, NatString(i - 1), groups[i])]]

\* 4.6 Packing Engine.
pack(category, fragments) ==
    IF Fits(category, <<>>, fragments)
    THEN [ok |-> TRUE, error |-> None, commands |-> <<SlotCommand(category, <<>>, fragments)>>]
    ELSE LET groups == FirstFit(category, fragments, <<>>, <<>>)
         IN IF \E i \in 1..Len(groups) : ~Fits(category, NatString(i - 1), groups[i])
            THEN [ok |-> FALSE, error |-> "fragment-too-large", commands |-> <<>>]
            ELSE IF Len(groups) > MAX_SLOTS_PER_TYPE
            THEN [ok |-> FALSE, error |-> "too-many-slots", commands |-> <<>>]
            ELSE [ok |-> TRUE, error |-> None,
                  commands |-> [i \in 1..Len(groups) |->
                                   SlotCommand(category, NatString(i - 1), groups[i])]]

\* 4.7 grouping: consecutive commands are joined by "\n" while the section
\* stays within MAX_COMMAND_LENGTH; a command that does not fit starts the
\* next section, and one that is too long alone is its own section.
RECURSIVE GroupSections(_, _, _, _)
GroupSections(commands, sections, current, started) ==
    IF commands = <<>> THEN (IF started THEN Append(sections, current) ELSE sections)
    ELSE IF ~started
    THEN GroupSections(Tail(commands), sections, Head(commands), TRUE)
    ELSE IF Len(current) + 1 + Len(Head(commands)) <= MAX_COMMAND_LENGTH
    THEN GroupSections(Tail(commands), sections, current \o <<"\n">> \o Head(commands), TRUE)
    ELSE GroupSections(Tail(commands), Append(sections, current), Head(commands), TRUE)

\* 4.7 Section Builder.
buildLobbySections(configuration, mapping, bundle) ==
    LET Sections(tweaks, defs, units) ==
            IF ~defs.ok THEN [ok |-> FALSE, error |-> defs.error, sections |-> <<>>]
            ELSE IF ~units.ok THEN [ok |-> FALSE, error |-> units.error, sections |-> <<>>]
            ELSE [ok |-> TRUE, error |-> None,
                  sections |-> GroupSections(tweaks.commands \o defs.commands \o units.commands,
                                             <<>>, <<>>, FALSE)]
        Packed(tweaks) ==
            Sections(tweaks,
                     pack(Tweakdefs, ResolveAll(tweaks.tweakdefs, bundle)),
                     pack(Tweakunits, ResolveAll(tweaks.tweakunits, bundle)))
    IN Packed(mapToTweaks(configuration, mapping))

(***************************************************************************)
(* Specification of the section builder: a configuration, a mapping table  *)
(* and a bundle are drawn, then the sections are built.                    *)
(***************************************************************************)
ShortTextLen == 2
LongTextLen == 12
HugeTextLen == 25
ShortLiteralLen == 2

RECURSIVE Repeat(_, _)
Repeat(c, n) == IF n = 0 THEN <<>> ELSE <<c>> \o Repeat(c, n - 1)

\* A literal command of n characters.
Literal(n) == <<"!">> \o Repeat("c", n - 1)

EmptyTweakValue == [command |-> <<>>, tweakdefs |-> <<>>, tweakunits |-> <<>>]

\* A mapping table in the shape of CONFIGURATION_MAPPING, BASE_COMMANDS and
\* BASE_TWEAKS: three schema keys in declared order; the default value of a
\* key has no entry.  literal is the command of the "start" entry.
Mapping(literal) ==
    [keys |-> <<"start", "incomeMult", "queenCount">>,
     values |->
        [start |-> ("szs" :> [EmptyTweakValue EXCEPT !.command = <<literal>>,
                                                     !.tweakunits = <<<<"~", "u">>>>]),
         incomeMult |-> ("2" :> [EmptyTweakValue EXCEPT !.tweakdefs = <<<<"~", "t", "{", "X", "=", "2", "}">>>>]),
         queenCount |-> ("9" :> [EmptyTweakValue EXCEPT !.command = <<<<"!", "q", " ", "9">>>>,
                                                        !.tweakdefs = <<<<"~", "d">>>>])],
     baseCommands |-> <<<<"!", "a">>, <<"!", "b", " ", "1">>>>,
     baseTweaks |-> [tweakdefs |-> <<<<"~", "m">>>>, tweakunits |-> <<<<"~", "n">>>>]]

Mappings == {Mapping(Literal(n)) : n \in {ShortLiteralLen, MAX_COMMAND_LENGTH + 1}}

Configurations ==
    [start : {"default", "szs"}, incomeMult : {"1", "2"}, queenCount : {"8", "9"}]

ShortText == Repeat("s", ShortTextLen)

LongText == Repeat("l", LongTextLen)

HugeText == Repeat("h", HugeTextLen)

TemplateText == <<"y", "=", "$", "X", "$">>

\* Bundles: each file absent or holding one of a few texts.
BuildBundles ==
    {m @@ n @@ t @@ u @@ d :
        m \in {<<>>} \cup {"m" :> x : x \in {ShortText, LongText, HugeText}},
        n \in {"n" :> x : x \in {ShortText, LongText}},
        t \in {<<>>, "t" :> TemplateText},
        u \in {"u" :> x : x \in {ShortText, LongText}},
        d \in {"d" :> x : x \in {<<>>, LongText}}}

InitBuild ==
    /\ pc = "start"
    /\ build \in [configuration : Configurations, mapping : Mappings]
    /\ luaFileMap \in BuildBundles
    /\ ref = None
    /\ template = None
    /\ variables = None
    /\ expression = None
    /\ interpolated = None
    /\ stored = None
    /\ gitShaEnv = None
    /\ defaults = None
    /\ result = None
    /\ warnings = <<>>

BuildLobbySections ==
    /\ pc = "start"
    /\ pc' = "built"
    /\ result' = buildLobbySections(build.configuration, build.mapping, luaFileMap)
    /\ UNCHANGED <<ref, luaFileMap, template, variables, expression, interpolated,
                   stored, gitShaEnv, defaults, build, warnings>>

NextBuild == BuildLobbySections

SpecBuild == InitBuild /\ [][NextBuild]_vars

(***************************************************************************)
(* What the end-to-end test reads back from the sections.                  *)
(***************************************************************************)
StartsWith(s, prefix) == Len(s) >= Len(prefix) /\ SubSeq(s, 1, Len(prefix)) = prefix

BsetTweakdefs == <<"!", "b", "s", "e", "t", " ">> \o Tweakdefs

BsetTweakunits == <<"!", "b", "s", "e", "t", " ">> \o Tweakunits

\* generatedTweaks: the lines of all the sections, in order.
GeneratedTweaks(sections) ==
    Flatten([i \in 1..Len(sections) |-> Split(sections[i], "\n")])

\* /^!bset tweakdefs|^!bset tweakunits/.test(generatedTweak)
IsSlotCommand(line) == StartsWith(line, BsetTweakdefs) \/ StartsWith(line, BsetTweakunits)

\* generatedTweak.replace(/^!bset tweakdefs\d* |^!bset tweakunits\d* /, '')
StripSlotPrefix(line) ==
    LET head == IF StartsWith(line, BsetTweakunits) THEN BsetTweakunits ELSE BsetTweakdefs
        rest == SubSeq(line, Len(head) + 1, Len(line))
        afterDigits == SubSeq(rest, Len(DigitRun(rest)) + 1, Len(rest))
    IN IF afterDigits # <<>> /\ Head(afterDigits) = " " THEN Tail(afterDigits) ELSE line

\* The first occurrence of pattern in s removed (String.prototype.replace
\* with a string pattern and '').
RemoveFirst(s, pattern) ==
    LET at == {i \in 1..(Len(s) - Len(pattern) + 1) : SubSeq(s, i, i + Len(pattern) - 1) = pattern}
    IN IF at = {} THEN s
       ELSE LET i == CHOOSE i \in at : \A j \in at : i <= j
            IN SubSeq(s, 1, i - 1) \o SubSeq(s, i + Len(pattern), Len(s))

\* stripCommentPrefix(line): the line without its leading "--".
stripCommentPrefix(line) ==
    IF StartsWith(line, <<"-", "-">>) THEN SubSeq(line, 3, Len(line)) ELSE line

\* stripCommentPrefix(line).trim().replace('Source: ', '')
SourceRef(line) == RemoveFirst(Trim(stripCommentPrefix(line)), <<"S", "o", "u", "r", "c", "e", ":", " ">>)

\* The source references of one slot command.
SourceRefs(line) ==
    LET decodedLines == Split(decode(StripSlotPrefix(line)), "\n")
        marked == SelectSeq(decodedLines, LAMBDA l : StartsWith(l, SourceMarker))
    IN [i \in 1..Len(marked) |-> SourceRef(marked[i])]

\* tweakdefsCnt, tweakunitsCnt
SlotCount(sections, prefix) ==
    Cardinality({i \in 1..Len(GeneratedTweaks(sections)) :
                    StartsWith(GeneratedTweaks(sections)[i], prefix)})

\* mapSettingsToConfig of the end-to-end test: the base commands and
\* references and, for every configuration key, the commands and references
\* of the entry of its value.
mapSettingsToConfig(configuration, mapping) ==
    LET selected == {mapping.values[k][configuration[k]] :
                        k \in {key \in DOMAIN configuration :
                                  configuration[key] \in DOMAIN mapping.values[key]}}
        Elements(list) == {list[i] : i \in 1..Len(list)}
    IN [commands |-> Elements(mapping.baseCommands)
                     \cup UNION {Elements(e.command) : e \in selected},
        references |-> Elements(mapping.baseTweaks.tweakdefs)
                       \cup Elements(mapping.baseTweaks.tweakunits)
                       \cup UNION {Elements(e.tweakdefs) \cup Elements(e.tweakunits) : e \in selected}]

RECURSIVE CanPackWithin(_, _, _, _)
CanPackWithin(category, fragments, slots, index) ==
    \/ fragments = <<>>
    \/ /\ slots > 0
       /\ \E n \in 1..Len(fragments) :
            /\ Fits(category, NatString(index), SubSeq(fragments, 1, n))
            /\ CanPackWithin(category, SubSeq(fragments, n + 1, Len(fragments)),
                             slots - 1, index + 1)

\* The category's fragments need more contiguous groups than
\* MAX_SLOTS_PER_TYPE.
NeedsTooManySlots(category, fragments) ==
    /\ ~Fits(category, <<>>, fragments)
    /\ ~CanPackWithin(category, fragments, MAX_SLOTS_PER_TYPE, 0)

\* The annotated fragments of a category for the build in the state.
BuildFragments(category) ==
    LET tweaks == mapToTweaks(build.configuration, build.mapping)
    IN ResolveAll(IF category = Tweakdefs THEN tweaks.tweakdefs ELSE tweaks.tweakunits,
                  luaFileMap)

\* C2: a build that returns emits at most MAX_SLOTS_PER_TYPE "!bset
\* tweakdefs..." commands and at most MAX_SLOTS_PER_TYPE "!bset
\* tweakunits..." commands; when a category's fragments need more groups
\* than that, the build fails with a capacity error and returns no section.
C2_SlotCountBounded ==
    pc = "built" =>
        /\ result.ok =>
            /\ SlotCount(result.sections, BsetTweakdefs) <= MAX_SLOTS_PER_TYPE
            /\ SlotCount(result.sections, BsetTweakunits) <= MAX_SLOTS_PER_TYPE
        /\ (\/ NeedsTooManySlots(Tweakdefs, BuildFragments(Tweakdefs))
            \/ NeedsTooManySlots(Tweakunits, BuildFragments(Tweakunits)))
              => /\ ~result.ok
                 /\ result.error \in {"too-many-slots", "fragment-too-large"}
                 /\ result.sections = <<>>

\* A build whose fragments all fit a slot each but need three slots has
\* failed with the capacity error.
C2_Witness ==
    /\ pc = "built"
    /\ ~result.ok
    /\ result.error = "too-many-slots"
    /\ NeedsTooManySlots(Tweakdefs, BuildFragments(Tweakdefs))

\* The reference resolves: it parses and the bundle holds text for its path.
Resolves(reference, bundle) ==
    /\ ~parseReference(reference).ret.isNull
    /\ ~TemplateMissing(bundle, parseReference(reference).ret.filePath)

\* C3: in the output of a build that returns, every base command and every
\* command of a selected mapping entry is a line of some section, and every
\* base or selected reference that resolves is recovered, exactly, from a
\* "-- Source: " line of the decoded payload of some slot command.
C3_Complete ==
    (pc = "built" /\ result.ok) =>
        LET expected == mapSettingsToConfig(build.configuration, build.mapping)
            lines == GeneratedTweaks(result.sections)
        IN /\ \A c \in expected.commands : \E i \in 1..Len(lines) : lines[i] = c
           /\ \A r \in expected.references :
                Resolves(r, luaFileMap) =>
                    \E i \in 1..Len(lines) :
                        /\ IsSlotCommand(lines[i])
                        /\ \E k \in 1..Len(SourceRefs(lines[i])) : SourceRefs(lines[i])[k] = r

\* A build with a selected literal command, a selected template reference
\* that resolves and one that does not, packed into two tweakdefs slots.
C3_Witness ==
    /\ pc = "built"
    /\ result.ok
    /\ build.configuration = [start |-> "szs", incomeMult |-> "2", queenCount |-> "9"]
    /\ "t" \in DOMAIN luaFileMap
    /\ luaFileMap["d"] = <<>>
    /\ SlotCount(result.sections, BsetTweakdefs) = 2

====
